---- MODULE Spec2Model ----
(***************************************************************************)
(* Model of the news-sentiment pipeline:                                   *)
(*   - ComparativeAnalyzer.analyze (src/models/comparative_analyzer.py),   *)
(*     a pure function over a list of article dicts;                       *)
(*   - process_news / get_results and the process-wide cache (src/api.py). *)
(* Python dicts are functions with a string domain; a missing key is a     *)
(* string outside the DOMAIN.  Python strings are TLA+ strings.            *)
(***************************************************************************)
EXTENDS Integers, Sequences, FiniteSets, TLC

VARIABLES
    articles,   \* the list handed to ComparativeAnalyzer.analyze
    result,     \* what analyze returned (EmptyDict before the call)
    aggPc,      \* "input" before the call, "returned" after it
    cache,      \* api.cache: company name -> stored entry
    audioFiles, \* the audio_files directory: path -> what was rendered into it
    tasks,      \* the background tasks, in the order they were queued
    workload,   \* the requests this run receives: how many, asking for how many articles
    lastStore,  \* history: company name -> the task that wrote cache[company] last
    response,   \* what get_results answered last (EmptyDict before any call)
    rawText,    \* the text handed to extract_topics or summarize_text
    limit,      \* its second argument: num_topics or max_length
    output,     \* what the call returned (PyNone before the call)
    textPc      \* "input" before the call, then "topics" or "summary"

aggVars == <<articles, result, aggPc>>

apiVars == <<cache, audioFiles, tasks, workload, lastStore, response>>

textVars == <<rawText, limit, output, textPc>>

vars == <<articles, result, aggPc, cache, audioFiles, tasks, workload, lastStore,
          response, rawText, limit, output, textPc>>

-----------------------------------------------------------------------------
(* Python values *)

\* {} : the dict with no key
EmptyDict == [k \in {} |-> 0]

\* None, as returned by dict.get(key) on a missing key
PyNone == "<None>"

\* no call of extract_topics or summarize_text is made
TextIdle ==
    /\ rawText = ""
    /\ limit = 0
    /\ output = PyNone
    /\ textPc = "input"

\* a str found where a dict is expected (it has no .get)
PyStr(s) == [pytype |-> "str", value |-> s]

IsDict(v) == "pytype" \notin DOMAIN v

\* dict.get(key, default)
Get(d, k, default) == IF k \in DOMAIN d THEN d[k] ELSE default

Min(a, b) == IF a < b THEN a ELSE b

\* s[:n]
Prefix(s, n) == SubSeq(s, 1, Min(n, Len(s)))

-----------------------------------------------------------------------------
(* Program constants *)

\* topic_counts.most_common(5)
TopN == 5

\* coverage_differences[:5]
MaxDifferences == 5

\* article['title'][:30]
TitleCut == 30

-----------------------------------------------------------------------------
(* Reading one article record *)

\* mutant: the tally reads the label without the 'Neutral' default
LabelWithoutDefault(a) == Get(Get(a, "sentiment", EmptyDict), "sentiment", PyNone)

\* article.get('sentiment', {}).get('sentiment', 'Neutral')
LabelOrNeutral(a) == Get(Get(a, "sentiment", EmptyDict), "sentiment", "Neutral")

\* article.get('sentiment', {}).get('sentiment')
RawLabel(a) == Get(Get(a, "sentiment", EmptyDict), "sentiment", PyNone)

\* article.get('topics', [])
TopicsOf(a) == Get(a, "topics", <<>>)

\* article.get('sentiment', {}).get('confidence', 0), in hundredths
ConfidenceOf(a) == Get(Get(a, "sentiment", EmptyDict), "confidence", 0)

\* article['title'] raises KeyError when the key is missing
HasTitle(a) == "title" \in DOMAIN a

-----------------------------------------------------------------------------
(* ComparativeAnalyzer.analyze, step by step *)

\* sentiments = [article.get('sentiment', {}).get('sentiment', 'Neutral') ...]
Sentiments(arts) == [i \in DOMAIN arts |-> LabelOrNeutral(arts[i])]

\* Counter(seq)[x]
Count(seq, x) == Cardinality({i \in DOMAIN seq : seq[i] = x})

\* the keys of Counter(seq) / of a dict filled while scanning seq, in
\* insertion order: each value once, at its first occurrence
RECURSIVE KeysUpTo(_, _)
KeysUpTo(seq, n) ==
    IF n = 0 THEN <<>>
    ELSE LET before == KeysUpTo(seq, n - 1)
         IN  IF \E j \in 1..(n - 1) : seq[j] = seq[n]
             THEN before
             ELSE Append(before, seq[n])

Keys(seq) == KeysUpTo(seq, Len(seq))

\* dict(Counter(seq)): only the values that occur are keys
CounterDict(seq) == [x \in {seq[i] : i \in DOMAIN seq} |-> Count(seq, x)]

\* all_topics: every record's topic list, concatenated in input order
RECURSIVE AllTopicsFrom(_, _)
AllTopicsFrom(arts, i) ==
    IF i > Len(arts) THEN <<>>
    ELSE TopicsOf(arts[i]) \o AllTopicsFrom(arts, i + 1)

AllTopics(arts) == AllTopicsFrom(arts, 1)

\* for each element of all_topics, the position of the article it came from
RECURSIVE AllOwnersFrom(_, _)
AllOwnersFrom(arts, i) ==
    IF i > Len(arts) THEN <<>>
    ELSE [j \in 1..Len(TopicsOf(arts[i])) |-> i] \o AllOwnersFrom(arts, i + 1)

AllOwners(arts) == AllOwnersFrom(arts, 1)

\* mutant: an item goes before the items of equal count (the sort is not stable)
RECURSIVE InsertBeforeEqual(_, _)
InsertBeforeEqual(sorted, item) ==
    IF sorted = <<>> THEN <<item>>
    ELSE IF Head(sorted).count > item.count
         THEN <<Head(sorted)>> \o InsertBeforeEqual(Tail(sorted), item)
         ELSE <<item>> \o sorted

\* where item k goes in a list kept in non-increasing count order:
\* after every item whose count is >= its own (sorted(..., reverse=True)
\* is stable, and heapq.nlargest is documented as equivalent to it)
RECURSIVE InsertByCount(_, _)
InsertByCount(sorted, item) ==
    IF sorted = <<>> THEN <<item>>
    ELSE IF Head(sorted).count >= item.count
         THEN <<Head(sorted)>> \o InsertByCount(Tail(sorted), item)
         ELSE <<item>> \o sorted

RECURSIVE SortByCountUpTo(_, _)
SortByCountUpTo(items, n) ==
    IF n = 0 THEN <<>>
    ELSE InsertByCount(SortByCountUpTo(items, n - 1), items[n])

\* topic_counts.most_common(5) as [{"topic": t, "count": c}, ...]
MostCommonTopics(arts) ==
    LET all    == AllTopics(arts)
        keys   == Keys(all)
        items  == [i \in DOMAIN keys |-> [topic |-> keys[i], count |-> Count(all, keys[i])]]
        sorted == SortByCountUpTo(items, Len(items))
    IN  SubSeq(sorted, 1, Min(TopN, Len(sorted)))

\* positions of the articles whose .get('sentiment') is exactly this label
WithLabel(arts, label) == {i \in DOMAIN arts : RawLabel(arts[i]) = label}

SetMin(S) == CHOOSE m \in S : \A x \in S : m <= x

PolarityImpact ==
    "These contrasting viewpoints suggest mixed market reactions or controversial developments."

\* mutant: the two titles change places
PolarityContrastSwapped(arts) ==
    LET pos == WithLabel(arts, "Positive")
        neg == WithLabel(arts, "Negative")
    IN  IF pos # {} /\ neg # {}
        THEN << [comparison |-> arts[SetMin(neg)].title
                                \o " presents a positive view, while "
                                \o arts[SetMin(pos)].title
                                \o " discusses negative aspects.",
                 impact |-> PolarityImpact] >>
        ELSE <<>>

\* "Compare positive vs negative": positive_articles[0] against negative_articles[0]
PolarityContrast(arts) ==
    LET pos == WithLabel(arts, "Positive")
        neg == WithLabel(arts, "Negative")
    IN  IF pos # {} /\ neg # {}
        THEN << [comparison |-> arts[SetMin(pos)].title
                                \o " presents a positive view, while "
                                \o arts[SetMin(neg)].title
                                \o " discusses negative aspects.",
                 impact |-> PolarityImpact] >>
        ELSE <<>>

\* topic_article_map[topic]: one entry per occurrence of the topic, in input order
TopicArticles(arts, topic) ==
    LET all    == AllTopics(arts)
        owners == AllOwners(arts)
        RECURSIVE From(_)
        From(p) == IF p > Len(all) THEN <<>>
                   ELSE IF all[p] = topic THEN <<owners[p]>> \o From(p + 1)
                   ELSE From(p + 1)
    IN  From(1)

\* mutant: any two of the topic's articles are compared, not the first two
ContestedAmongAll(arts, topic) ==
    LET ta == TopicArticles(arts, topic)
    IN  /\ Len(ta) >= 2
        /\ \E j, k \in DOMAIN ta : RawLabel(arts[ta[j]]) # RawLabel(arts[ta[k]])

\* does the loop body over this topic append a comparison?
Contested(arts, topic) ==
    LET ta == TopicArticles(arts, topic)
    IN  /\ Len(ta) >= 2
        /\ RawLabel(arts[ta[1]]) # RawLabel(arts[ta[2]])

TopicComparison(arts, topic) ==
    LET ta == TopicArticles(arts, topic)
    IN  [comparison |-> "Articles about '" \o topic \o "' show differing perspectives: "
                        \o arts[ta[1]].title \o " vs " \o arts[ta[2]].title,
         impact |-> "This suggests the '" \o topic
                    \o "' aspect may be a point of contention or uncertainty."]

\* "Compare by topic focus": topic_article_map.items() in insertion order
RECURSIVE TopicContrastFrom(_, _, _)
TopicContrastFrom(arts, keys, k) ==
    IF k > Len(keys) THEN <<>>
    ELSE (IF Contested(arts, keys[k]) THEN <<TopicComparison(arts, keys[k])>> ELSE <<>>)
         \o TopicContrastFrom(arts, keys, k + 1)

TopicContrast(arts) == TopicContrastFrom(arts, Keys(AllTopics(arts)), 1)

\* coverage_differences before the [:5]
CoverageDifferences(arts) == PolarityContrast(arts) \o TopicContrast(arts)

\* mutant: the slice keeps one item too many
TruncateOneMore(diffs) == SubSeq(diffs, 1, Min(MaxDifferences + 1, Len(diffs)))

\* coverage_differences[:5]
Truncate(diffs) == SubSeq(diffs, 1, Min(MaxDifferences, Len(diffs)))

\* mutant: the comparisons are not strict, so a tie goes to the first branch
VerdictNonStrict(counts) ==
    LET p == Get(counts, "Positive", 0)
        n == Get(counts, "Negative", 0)
        u == Get(counts, "Neutral", 0)
        Max(a, b) == IF a > b THEN a ELSE b
    IN  IF p >= Max(n, u) THEN "mostly positive"
        ELSE IF n >= Max(p, u) THEN "mostly negative"
        ELSE IF u >= Max(p, n) THEN "generally neutral"
        ELSE "mixed"

\* "Determine overall sentiment": the if/elif chain over sentiment_counts
Verdict(counts) ==
    LET p == Get(counts, "Positive", 0)
        n == Get(counts, "Negative", 0)
        u == Get(counts, "Neutral", 0)
        Max(a, b) == IF a > b THEN a ELSE b
    IN  IF p > Max(n, u) THEN "mostly positive"
        ELSE IF n > Max(p, u) THEN "mostly negative"
        ELSE IF u > Max(p, n) THEN "generally neutral"
        ELSE "mixed"

\* set(article.get('topics', []))
TopicSet(a) == {TopicsOf(a)[k] : k \in DOMAIN TopicsOf(a)}

\* other_topics: the topics of every other_article with other_article != article
\* (dict inequality: records are compared by value, not by position)
OtherTopics(arts, i) ==
    UNION {TopicSet(arts[j]) : j \in {k \in DOMAIN arts : arts[k] # arts[i]}}

\* unique_topics = article_topics - other_topics
UniqueTopics(arts, i) == TopicSet(arts[i]) \ OtherTopics(arts, i)

\* f"Article {i+1} ({article['title'][:30]}...)"   (i is already 1-based here)
ArticleLabel(arts, i) ==
    "Article " \o ToString(i) \o " (" \o Prefix(arts[i].title, TitleCut) \o "...)"

\* unique_topics_by_article: a key only for an article with unique topics;
\* a later article writing the same key would replace the earlier value
UniqueTopicsByArticle(arts) ==
    LET withUnique == {i \in DOMAIN arts : UniqueTopics(arts, i) # {}}
        LastWith(key) == CHOOSE i \in withUnique :
                            /\ ArticleLabel(arts, i) = key
                            /\ \A j \in withUnique : ArticleLabel(arts, j) = key => j <= i
    IN  [key \in {ArticleLabel(arts, i) : i \in withUnique} |-> UniqueTopics(arts, LastWith(key))]

\* mutant: the threshold on the count is 1
CommonTopicsFromOne(arts) ==
    LET all == AllTopics(arts)
    IN  {t \in {all[p] : p \in DOMAIN all} : Count(all, t) >= 1}

\* common_topics: the topics whose count in topic_counts is >= 2
CommonTopics(arts) ==
    LET all == AllTopics(arts)
    IN  {t \in {all[p] : p \in DOMAIN all} : Count(all, t) >= 2}

\* "Topic overlap analysis": {} unless len(articles) >= 2
TopicOverlap(arts) ==
    IF Len(arts) >= 2
    THEN [common_topics |-> CommonTopics(arts),
          unique_topics_by_article |-> UniqueTopicsByArticle(arts)]
    ELSE EmptyDict

RECURSIVE SumConfidences(_, _)
SumConfidences(arts, i) ==
    IF i > Len(arts) THEN 0 ELSE ConfidenceOf(arts[i]) + SumConfidences(arts, i + 1)

\* mutant: the mean is cut after two decimals instead of rounded
FormatAverageTruncated(sum, n) ==
    LET hundr  == sum \div n
        digits == hundr % 100
    IN  ToString(hundr \div 100) \o "."
        \o ToString(digits \div 10) \o ToString(digits % 10)

\* f"{sum(confidences) / len(confidences):.2f}" for confidences given in
\* hundredths: the mean rounded to the nearest hundredth.  (An exact half is
\* decided by the binary rounding of the double; the input lists of the model
\* are chosen so that no mean is an exact half.)
FormatAverage(sum, n) ==
    LET q      == sum \div n
        r      == sum % n
        hundr  == IF 2 * r > n \/ (2 * r = n /\ q % 2 = 1) THEN q + 1 ELSE q
        digits == hundr % 100
    IN  ToString(hundr \div 100) \o "."
        \o ToString(digits \div 10) \o ToString(digits % 10)

FinalSentiment(arts) ==
    "The news coverage is " \o Verdict(CounterDict(Sentiments(arts)))
    \o " with an average confidence of "
    \o FormatAverage(SumConfidences(arts, 1), Len(arts)) \o "."

-----------------------------------------------------------------------------
(* Faults inside the try block.  Each is the exception Python raises at the  *)
(* point where the code reads a key that is missing or calls .get on a       *)
(* value that is no dict.                                                    *)

\* line 36: article.get('sentiment', {}) is no dict -> AttributeError
ShapeFault(arts) ==
    \E i \in DOMAIN arts :
        "sentiment" \in DOMAIN arts[i] /\ ~IsDict(arts[i].sentiment)

\* line 61: pos_article['title'] / neg_article['title']
PolarityTitleFault(arts) ==
    LET pos == WithLabel(arts, "Positive")
        neg == WithLabel(arts, "Negative")
    IN  /\ pos # {} /\ neg # {}
        /\ ~HasTitle(arts[SetMin(pos)]) \/ ~HasTitle(arts[SetMin(neg)])

\* line 81: article1['title'] / article2['title'] of a contested topic
TopicTitleFault(arts) ==
    LET all == AllTopics(arts)
    IN  \E t \in {all[p] : p \in DOMAIN all} :
            /\ Contested(arts, t)
            /\ LET ta == TopicArticles(arts, t)
               IN  ~HasTitle(arts[ta[1]]) \/ ~HasTitle(arts[ta[2]])

\* line 117: article['title'][:30] of an article with unique topics
UniqueTitleFault(arts) ==
    /\ Len(arts) >= 2
    /\ \E i \in DOMAIN arts : UniqueTopics(arts, i) # {} /\ ~HasTitle(arts[i])

Faulted(arts) ==
    \/ ShapeFault(arts)
    \/ PolarityTitleFault(arts)
    \/ TopicTitleFault(arts)
    \/ UniqueTitleFault(arts)

\* str(e) of the first exception raised
Diagnostic(arts) ==
    IF ShapeFault(arts) THEN "'str' object has no attribute 'get'" ELSE "'title'"

-----------------------------------------------------------------------------
(* The three returns of analyze *)

\* mutant: the empty input is reported as an error
NoDataAsError ==
    [sentiment_distribution |-> EmptyDict,
     coverage_differences   |-> <<>>,
     topic_analysis         |-> EmptyDict,
     final_sentiment        |-> "No data available",
     error                  |-> "No articles provided"]

\* lines 26-33: "if not articles"
NoDataResult ==
    [sentiment_distribution |-> EmptyDict,
     coverage_differences   |-> <<>>,
     topic_analysis         |-> EmptyDict,
     final_sentiment        |-> "No data available"]

\* lines 139-147: "except Exception as e"
ErrorResult(diagnostic) ==
    [sentiment_distribution |-> EmptyDict,
     coverage_differences   |-> <<>>,
     topic_analysis         |-> EmptyDict,
     final_sentiment        |-> "Error in analysis",
     error                  |-> diagnostic]

\* lines 127-137: "Return comprehensive comparative analysis"
FullResult(arts) ==
    [sentiment_distribution |-> CounterDict(Sentiments(arts)),
     coverage_differences   |-> Truncate(CoverageDifferences(arts)),
     topic_analysis         |-> [most_common_topics |-> MostCommonTopics(arts),
                                 topic_overlap      |-> TopicOverlap(arts)],
     final_sentiment        |-> FinalSentiment(arts)]

\* mutant: no try/except around the aggregation, so the exception leaves
\* analyze and the caller gets no result object
AnalyzeUncaught(arts) ==
    IF arts = <<>> THEN NoDataResult
    ELSE IF Faulted(arts) THEN [raised |-> Diagnostic(arts)]
    ELSE FullResult(arts)

\* ComparativeAnalyzer.analyze(articles)
Analyze(arts) ==
    IF arts = <<>> THEN NoDataResult
    ELSE IF Faulted(arts) THEN ErrorResult(Diagnostic(arts))
    ELSE FullResult(arts)

-----------------------------------------------------------------------------
(* Inputs of analyze *)

\* longest input list
MaxArticles == 3

LongTitle == "Quarterly deliveries beat every forecast again"

Labels == {"Positive", "Negative", "Neutral"}

\* dict pieces: a key with one of its values, or no key at all
TitlePart(titles)   == {("title" :> t) : t \in titles}
TopicsPart(lists)   == {("topics" :> l) : l \in lists}
SentimentPart(vals) == {("sentiment" :> v) : v \in vals}
UrlPart(urls)       == {("url" :> u) : u \in urls}
NoKey               == {EmptyDict}

Records(titleParts, topicParts, sentimentParts, urlParts) ==
    {t @@ p @@ s @@ u : t \in titleParts, p \in topicParts,
                        s \in sentimentParts, u \in urlParts}

\* records as the pipeline makes them or fails to make them: the scorer's
\* three labels, a record left unscored (no 'sentiment' key), a sentiment
\* that is a plain string, each with and without a title; and records with
\* no 'topics' key
ShapeRecords ==
    Records(TitlePart({"Alpha"}) \cup NoKey,
            TopicsPart({<<"EV">>}),
            SentimentPart({[sentiment |-> "Positive", confidence |-> 80],
                           [sentiment |-> "Negative", confidence |-> 40],
                           [sentiment |-> "Neutral"],
                           PyStr("Positive")}) \cup NoKey,
            UrlPart({"u1"}))
    \cup
    Records(TitlePart({"Alpha"}),
            NoKey,
            SentimentPart({[sentiment |-> "Positive", confidence |-> 80],
                           [confidence |-> 40]}),
            UrlPart({"u1"}))

\* topic lists: repeated topics, shared topics in different orders, and more
\* than TopN distinct topics
TopicLists ==
    {<<>>, <<"EV">>, <<"EV", "EV">>, <<"EV", "Stock">>, <<"Stock", "Cybertruck">>,
     <<"Ai", "Battery", "Cybertruck", "Deliveries", "EV", "Stock">>,
     <<"Stock", "EV", "Deliveries", "Cybertruck", "Battery", "Ai">>}

\* well-formed records that differ in their topic lists; two more that differ
\* from one of them in the title or in the url alone
TopicRecords ==
    Records(TitlePart({"Alpha"}),
            TopicsPart(TopicLists),
            SentimentPart({[sentiment |-> "Positive", confidence |-> 80],
                           [sentiment |-> "Negative", confidence |-> 40]}),
            UrlPart({"u1"}))
    \cup
    Records(TitlePart({LongTitle}),
            TopicsPart({<<"EV">>}),
            SentimentPart({[sentiment |-> "Positive", confidence |-> 80]}),
            UrlPart({"u1"}))
    \cup
    Records(TitlePart({"Alpha"}),
            TopicsPart({<<"EV">>}),
            SentimentPart({[sentiment |-> "Positive", confidence |-> 80]}),
            UrlPart({"u2"}))

ListsOver(S, n) == UNION {[1..k -> S] : k \in 0..n}

\* the scorer's answers of the three-article example: 0.9, 0.8 and 0.4
ExampleRecords ==
    Records(TitlePart({"Alpha"}),
            TopicsPart({<<"EV">>}),
            SentimentPart({[sentiment |-> "Positive", confidence |-> 90],
                           [sentiment |-> "Positive", confidence |-> 80],
                           [sentiment |-> "Negative", confidence |-> 40]}),
            UrlPart({"u1"}))

\* the lists of three of them (the mean of three such confidences is never
\* halfway between two hundredths)
ExampleInputs == [1..3 -> ExampleRecords]

Inputs ==
    ListsOver(ShapeRecords, MaxArticles) \cup ListsOver(TopicRecords, MaxArticles)
    \cup ExampleInputs

-----------------------------------------------------------------------------
(* The aggregator as a state machine: one call of analyze on one input *)

\* the api module as loaded: empty cache, empty audio directory, no task
ApiIdle ==
    /\ cache = EmptyDict
    /\ audioFiles = EmptyDict
    /\ tasks = <<>>
    /\ lastStore = EmptyDict
    /\ response = EmptyDict

AggInit ==
    /\ articles \in Inputs
    /\ result = EmptyDict
    /\ aggPc = "input"
    /\ ApiIdle
    /\ workload = [requests |-> 0, num_articles |-> 0, polls |-> FALSE, pages |-> "none"]
    /\ TextIdle

\* comparison = comparative_analyzer.analyze(articles)
AnalyzeCall ==
    /\ aggPc = "input"
    /\ result' = Analyze(articles)
    /\ aggPc' = "returned"
    /\ UNCHANGED articles
    /\ UNCHANGED apiVars
    /\ UNCHANGED textVars

AggNext == AnalyzeCall

AggSpec == AggInit /\ [][AggNext]_vars

Returned == aggPc = "returned"

-----------------------------------------------------------------------------
(* Properties of analyze.  Each is stated from the input list, not from    *)
(* the operators that compute the result.                                   *)

ResultKeys == {"sentiment_distribution", "coverage_differences",
               "topic_analysis", "final_sentiment"}

IsErrorResult(r) == "error" \in DOMAIN r

\* every record has a title and a sentiment that is a dict (or none)
WellFormed(arts) ==
    \A i \in DOMAIN arts :
        /\ "title" \in DOMAIN arts[i]
        /\ "sentiment" \in DOMAIN arts[i] => IsDict(arts[i].sentiment)

\* the label a record counts under: its own, Neutral when it has none
CountedLabel(a) ==
    IF "sentiment" \in DOMAIN a /\ "sentiment" \in DOMAIN a.sentiment
    THEN a.sentiment.sentiment
    ELSE "Neutral"

NumberCounted(arts, label) ==
    Cardinality({i \in DOMAIN arts : CountedLabel(arts[i]) = label})

\* C1: analyze always returns a result object with the four result fields
\* (it never raises to its caller); a result carrying an 'error' diagnostic
\* has empty collections and final_sentiment "Error in analysis"; an input
\* with a sentiment that is no dict, or whose first Positive or first
\* Negative record of a Positive/Negative pair lacks a title, yields such an
\* error result, and a list of well-formed records never does.
C1_NeverRaises ==
    Returned =>
        /\ ResultKeys \subseteq DOMAIN result
        /\ DOMAIN result \subseteq ResultKeys \cup {"error"}
        /\ IsErrorResult(result) =>
              /\ result.sentiment_distribution = EmptyDict
              /\ result.coverage_differences = <<>>
              /\ result.topic_analysis = EmptyDict
              /\ result.final_sentiment = "Error in analysis"
              /\ result.error \in {"'title'", "'str' object has no attribute 'get'"}
        /\ (\E i \in DOMAIN articles :
               "sentiment" \in DOMAIN articles[i] /\ ~IsDict(articles[i].sentiment))
           => IsErrorResult(result)
        /\ (\E i, j \in DOMAIN articles :
               /\ WellFormed(SubSeq(articles, 1, i - 1) \o SubSeq(articles, i + 1, Len(articles)))
               /\ "title" \notin DOMAIN articles[i]
               /\ {CountedLabel(articles[i]), CountedLabel(articles[j])}
                      = {"Positive", "Negative"}
               /\ \A k \in 1..(i - 1) : CountedLabel(articles[k]) # CountedLabel(articles[i]))
           => IsErrorResult(result)
        /\ WellFormed(articles) => ~IsErrorResult(result)

\* a fault occurred inside the aggregation and came back as the error result
C1_Witness ==
    /\ Returned
    /\ Len(articles) >= 2
    /\ \E i \in DOMAIN articles : "title" \notin DOMAIN articles[i]
    /\ IsErrorResult(result)
    /\ result.error = "'title'"

\* C2: for the empty input list analyze returns empty collections,
\* final_sentiment "No data available" and no 'error' field.
C2_EmptyInput ==
    (Returned /\ articles = <<>>) =>
        /\ result.sentiment_distribution = EmptyDict
        /\ result.coverage_differences = <<>>
        /\ result.topic_analysis = EmptyDict
        /\ result.final_sentiment = "No data available"
        /\ DOMAIN result = ResultKeys

C2_Witness == Returned /\ articles = <<>>

\* C3: on a non-empty input that does not take the error path,
\* sentiment_distribution maps exactly the labels that occur (a record
\* without label counting as Neutral) to their number of records, so its
\* values add up to the number of articles.
C3_Distribution ==
    (Returned /\ articles # <<>> /\ ~IsErrorResult(result)) =>
        LET dist == result.sentiment_distribution
        IN  /\ DOMAIN dist = {l \in Labels : NumberCounted(articles, l) > 0}
            /\ \A l \in DOMAIN dist : dist[l] = NumberCounted(articles, l)
            /\ Get(dist, "Positive", 0) + Get(dist, "Negative", 0)
                 + Get(dist, "Neutral", 0) = Len(articles)

\* an unlabelled record was counted as Neutral and some label has no key
C3_Witness ==
    /\ Returned /\ ~IsErrorResult(result)
    /\ \E i \in DOMAIN articles : "sentiment" \notin DOMAIN articles[i]
    /\ \E i \in DOMAIN articles : CountedLabel(articles[i]) = "Positive"
    /\ DOMAIN result.sentiment_distribution = {"Positive", "Neutral"}

\* the result of a completed aggregation of a non-empty list
Completed == Returned /\ articles # <<>> /\ ~IsErrorResult(result)

\* C4: coverage_differences never has more than 5 items, and when the
\* aggregation completes it is the first min(5, n) items of the polarity
\* comparison (if any) followed by the topic comparisons, n being the length
\* of that sequence.
C4_CoverageCap ==
    Returned =>
        /\ Len(result.coverage_differences) <= 5
        /\ ~IsErrorResult(result) =>
              LET generated == PolarityContrast(articles) \o TopicContrast(articles)
                  n         == Len(generated)
                  kept      == IF n < 5 THEN n ELSE 5
              IN  /\ Len(result.coverage_differences) = kept
                  /\ \A k \in 1..kept : result.coverage_differences[k] = generated[k]

\* more than 5 comparisons were generated and 5 were kept
C4_Witness ==
    /\ Completed
    /\ Len(PolarityContrast(articles) \o TopicContrast(articles)) > 5
    /\ Len(result.coverage_differences) = 5

\* position of the first occurrence of x in seq
FirstAt(seq, x) == SetMin({p \in DOMAIN seq : seq[p] = x})

\* does item a rank before item b: higher count, or equal count and earlier
\* first occurrence in the concatenated topic lists
RanksBefore(all, a, b) ==
    \/ Count(all, a) > Count(all, b)
    \/ Count(all, a) = Count(all, b) /\ FirstAt(all, a) < FirstAt(all, b)

\* C5: most_common_topics has at most 5 entries, each with the number of
\* occurrences of its topic in the concatenated topic lists, in
\* non-increasing count order, equal counts in order of first occurrence,
\* and no omitted topic ranks before an included one.
C5_MostCommon ==
    Completed =>
        LET mc       == result.topic_analysis.most_common_topics
            all      == AllTopics(articles)
            distinct == {all[p] : p \in DOMAIN all}
            included == {mc[k].topic : k \in DOMAIN mc}
        IN  /\ Len(mc) <= 5
            /\ Len(mc) = (IF Cardinality(distinct) < 5 THEN Cardinality(distinct) ELSE 5)
            /\ \A k \in DOMAIN mc :
                  /\ DOMAIN mc[k] = {"topic", "count"}
                  /\ mc[k].topic \in distinct
                  /\ mc[k].count = Cardinality({p \in DOMAIN all : all[p] = mc[k].topic})
            /\ \A k, m \in DOMAIN mc :
                  k < m => RanksBefore(all, mc[k].topic, mc[m].topic)
            /\ \A t \in distinct \ included :
                  \A e \in included : ~RanksBefore(all, t, e) /\ e # t

\* more than 5 distinct topics, and an omitted topic ties with an included one
C5_Witness ==
    /\ Completed
    /\ LET mc  == result.topic_analysis.most_common_topics
           all == AllTopics(articles)
       IN  /\ Len(mc) = 5
           /\ mc[1].count > mc[5].count
           /\ \E p \in DOMAIN all :
                 /\ \A k \in DOMAIN mc : mc[k].topic # all[p]
                 /\ Count(all, all[p]) = mc[5].count

VerdictWords == {"mostly positive", "mostly negative", "generally neutral", "mixed"}

\* the sentence up to the number, for a verdict word
VerdictPrefix(word) ==
    "The news coverage is " \o word \o " with an average confidence of "

\* the verdict words embedded in a final_sentiment
EmbeddedVerdicts(final) ==
    {w \in VerdictWords : Prefix(final, Len(VerdictPrefix(w))) = VerdictPrefix(w)}

\* C6: the verdict word is "mostly positive" iff Positive outnumbers both
\* other labels, else "mostly negative" iff Negative does, else "generally
\* neutral" iff Neutral does, else "mixed" (so on every tie for the maximum);
\* exactly one of the four words is embedded.
C6_Verdict ==
    Completed =>
        LET p == NumberCounted(articles, "Positive")
            n == NumberCounted(articles, "Negative")
            u == NumberCounted(articles, "Neutral")
            expected == IF p > n /\ p > u THEN "mostly positive"
                        ELSE IF n > p /\ n > u THEN "mostly negative"
                        ELSE IF u > p /\ u > n THEN "generally neutral"
                        ELSE "mixed"
            tie == \/ p = n /\ p >= u
                   \/ p = u /\ p >= n
                   \/ n = u /\ n >= p
        IN  /\ EmbeddedVerdicts(result.final_sentiment) = {expected}
            /\ tie => expected = "mixed"

\* a tie for the maximum between Positive and Negative came out "mixed"
C6_Witness ==
    /\ Completed
    /\ NumberCounted(articles, "Positive") = NumberCounted(articles, "Negative")
    /\ NumberCounted(articles, "Positive") > NumberCounted(articles, "Neutral")
    /\ EmbeddedVerdicts(result.final_sentiment) = {"mixed"}

\* positions of the articles whose topic list holds the topic
ArticlesWith(arts, topic) ==
    {i \in DOMAIN arts : \E k \in DOMAIN TopicsOf(arts[i]) : TopicsOf(arts[i])[k] = topic}

EveryTopic(arts) ==
    UNION {{TopicsOf(arts[i])[k] : k \in DOMAIN TopicsOf(arts[i])} : i \in DOMAIN arts}

\* no record's own topic list holds a topic twice
NoRepeatedTopic(arts) ==
    \A i \in DOMAIN arts :
        \A k, m \in DOMAIN TopicsOf(arts[i]) :
            TopicsOf(arts[i])[k] = TopicsOf(arts[i])[m] => k = m

\* C7 as stated: for every list of at least two articles, whatever the topic
\* lists, common_topics is the set of topics that occur in the lists of at
\* least two different articles.
C7_CommonAnyLists ==
    (Completed /\ Len(articles) >= 2) =>
        result.topic_analysis.topic_overlap.common_topics
            = {t \in EveryTopic(articles) : Cardinality(ArticlesWith(articles, t)) >= 2}

\* C7 amended: the same, for lists of at least two articles in which no
\* article's own topic list repeats a topic.
C7_CommonTopics ==
    (Completed /\ Len(articles) >= 2 /\ NoRepeatedTopic(articles)) =>
        result.topic_analysis.topic_overlap.common_topics
            = {t \in EveryTopic(articles) : Cardinality(ArticlesWith(articles, t)) >= 2}

\* two articles share one topic and each has another one of its own
C7_Witness ==
    /\ Completed /\ Len(articles) >= 2 /\ NoRepeatedTopic(articles)
    /\ result.topic_analysis.topic_overlap.common_topics # {}
    /\ result.topic_analysis.topic_overlap.common_topics # EveryTopic(articles)

\* the start of article i's key in unique_topics_by_article
LabelStart(i) == "Article " \o ToString(i) \o " ("

KeysOfArticle(mapping, i) ==
    {key \in DOMAIN mapping : Prefix(key, Len(LabelStart(i))) = LabelStart(i)}

\* C8: for every list of at least two articles and every position i, the
\* topics under article i's key in unique_topics_by_article are the topics of
\* article i that are in the list of no article at another position, and the
\* key exists iff there is such a topic.
C8_UniquePerPosition ==
    (Completed /\ Len(articles) >= 2) =>
        LET mapping == result.topic_analysis.topic_overlap.unique_topics_by_article
        IN  \A i \in DOMAIN articles :
                LET own == {t \in EveryTopic(articles) : ArticlesWith(articles, t) = {i}}
                IN  /\ KeysOfArticle(mapping, i) # {} <=> own # {}
                    /\ \A key \in KeysOfArticle(mapping, i) : mapping[key] = own

-----------------------------------------------------------------------------
(* src/utils.py: the enrichment step, summarize_text and extract_topics.   *)
(* Texts are strings of ASCII letters, spaces, the marks . ! ? , and the   *)
(* ligature U+FB01 (fi in one character).                                  *)

Uppercase == "ABCDEFGHIJKLMNOPQRSTUVWXYZ"

Lowercase == "abcdefghijklmnopqrstuvwxyz"

\* the position of the character ch in the alphabet, 0 when it is not in it
IndexIn(ch, alphabet) ==
    LET at == {i \in 1..Len(alphabet) : SubSeq(alphabet, i, i) = ch}
    IN  IF at = {} THEN 0 ELSE CHOOSE i \in at : TRUE

\* str.lower()
RECURSIVE Lower(_)
Lower(s) ==
    IF Len(s) = 0 THEN ""
    ELSE LET ch == SubSeq(s, 1, 1)
             k  == IndexIn(ch, Uppercase)
         IN  (IF k = 0 THEN ch ELSE SubSeq(Lowercase, k, k))
             \o Lower(SubSeq(s, 2, Len(s)))

\* the one character U+FB01, LATIN SMALL LIGATURE FI.  A TLA+ string holds
\* ASCII only, so the character is written "#" here; no text of the model
\* holds a number sign.  It is a lower-case letter to Python: str.lower()
\* leaves it as it is and len() counts it as one character.
Ligature == "#"

\* str.capitalize(): the first character in title case, the rest lower case.
\* The title case of a letter is its capital; that of the ligature is the
\* two characters "Fi" (Unicode SpecialCasing).
Capitalize(s) ==
    IF Len(s) = 0 THEN ""
    ELSE LET ch == SubSeq(s, 1, 1)
             k  == IndexIn(ch, Lowercase)
         IN  (IF ch = Ligature THEN "Fi"
              ELSE IF k = 0 THEN ch ELSE SubSeq(Uppercase, k, k))
             \o Lower(SubSeq(s, 2, Len(s)))

\* s without its leading spaces
RECURSIVE LStrip(_)
LStrip(s) ==
    IF Len(s) > 0 /\ SubSeq(s, 1, 1) = " " THEN LStrip(SubSeq(s, 2, Len(s))) ELSE s

\* s without its trailing spaces
RECURSIVE RStrip(_)
RStrip(s) ==
    IF Len(s) > 0 /\ SubSeq(s, Len(s), Len(s)) = " "
    THEN RStrip(SubSeq(s, 1, Len(s) - 1))
    ELSE s

\* str.strip()
Strip(s) == LStrip(RStrip(s))

\* str.split(): the maximal runs of non-space characters, in order
RECURSIVE Split(_)
Split(s) ==
    LET rest == LStrip(s)
        ends == {i \in 1..Len(rest) : SubSeq(rest, i, i) = " "}
        stop == IF ends = {} THEN Len(rest) + 1 ELSE SetMin(ends)
    IN  IF Len(rest) = 0 THEN <<>>
        ELSE <<SubSeq(rest, 1, stop - 1)>> \o Split(SubSeq(rest, stop, Len(rest)))

\* re.split(r'(?<=[.!?])\s+', text): cut at every run of spaces that follows
\* one of . ! ? (the run is dropped; a cut at the very end leaves '')
RECURSIVE SplitSentences(_)
SplitSentences(text) ==
    LET cuts == {i \in 1..(Len(text) - 1) :
                    /\ SubSeq(text, i, i) \in {".", "!", "?"}
                    /\ SubSeq(text, i + 1, i + 1) = " "}
    IN  IF cuts = {} THEN <<text>>
        ELSE LET cut == SetMin(cuts)
             IN  <<SubSeq(text, 1, cut)>>
                 \o SplitSentences(LStrip(SubSeq(text, cut + 1, Len(text))))

\* summarize_text's default max_length
SummaryLength == 200

\* mutant: the loop also breaks at a sentence that fills max_length exactly
RECURSIVE TakeSentencesBelow(_, _, _)
TakeSentencesBelow(sentences, summary, max_length) ==
    IF sentences = <<>> THEN summary
    ELSE IF Len(summary) + Len(Head(sentences)) >= max_length THEN summary
    ELSE TakeSentencesBelow(Tail(sentences), summary \o Head(sentences) \o " ", max_length)

\* the for loop of summarize_text: summary grows by whole sentences and the
\* loop breaks at the first one that would pass max_length
RECURSIVE TakeSentences(_, _, _)
TakeSentences(sentences, summary, max_length) ==
    IF sentences = <<>> THEN summary
    ELSE IF Len(summary) + Len(Head(sentences)) > max_length THEN summary
    ELSE TakeSentences(Tail(sentences), summary \o Head(sentences) \o " ", max_length)

\* summarize_text(text, max_length)
SummarizeText(text, max_length) ==
    IF Len(text) = 0 \/ Len(text) <= max_length THEN text
    ELSE Strip(TakeSentences(SplitSentences(text), "", max_length))

\* extract_topics' default num_topics
NumTopics == 3

Stopwords == {"the", "and", "a", "in", "to", "of", "for", "on", "with", "as",
              "at", "by", "an", "is", "was", "were", "be", "been"}

\* extract_topics(text, num_topics)
ExtractTopics(text, num_topics) ==
    LET IsKept(word) == word \notin Stopwords /\ Len(word) > 3
        words  == SelectSeq(Split(Lower(text)), IsKept)
        keys   == Keys(words)
        items  == [i \in DOMAIN keys |-> [topic |-> keys[i], count |-> Count(words, keys[i])]]
        sorted == SortByCountUpTo(items, Len(items))
    IN  [k \in 1..Min(num_topics, Len(sorted)) |-> Capitalize(sorted[k].topic)]

-----------------------------------------------------------------------------
(* The two text functions as a state machine: one call on one text *)

\* most words of a text
MaxWords == 3

\* largest second argument (num_topics, max_length)
MaxLimit == 8

\* words of an article body: a stopword, a short word, a word in two
\* spellings of case, and a word typeset with and without the ligature
TopicWords == {"with", "tax", "Growth", "growth", "finance", Ligature \o "nance"}

\* pieces of sentences: with each closing mark, without one, and the empty
\* piece, which puts two spaces in a row (or a space at either end) when
\* the pieces are joined
SentenceWords == {"Ab.", "Cd!", "Efgh?", "ij", ""}

\* ' '.join(words)
RECURSIVE JoinSpace(_)
JoinSpace(words) ==
    IF words = <<>> THEN ""
    ELSE IF Len(words) = 1 THEN words[1]
    ELSE words[1] \o " " \o JoinSpace(Tail(words))

Texts ==
    {JoinSpace(words) : words \in ListsOver(TopicWords, MaxWords)}
    \cup {JoinSpace(words) : words \in ListsOver(SentenceWords, MaxWords)}

TextInit ==
    /\ rawText \in Texts
    /\ limit \in 0..MaxLimit
    /\ output = PyNone
    /\ textPc = "input"
    /\ articles = <<>>
    /\ result = EmptyDict
    /\ aggPc = "input"
    /\ ApiIdle
    /\ workload = [requests |-> 0, num_articles |-> 0, polls |-> FALSE, pages |-> "none"]

\* topics = extract_topics(text, num_topics)
ExtractTopicsCall ==
    /\ textPc = "input"
    /\ output' = ExtractTopics(rawText, limit)
    /\ textPc' = "topics"
    /\ UNCHANGED <<rawText, limit>>
    /\ UNCHANGED aggVars
    /\ UNCHANGED apiVars

\* summary = summarize_text(text, max_length)
SummarizeTextCall ==
    /\ textPc = "input"
    /\ output' = SummarizeText(rawText, limit)
    /\ textPc' = "summary"
    /\ UNCHANGED <<rawText, limit>>
    /\ UNCHANGED aggVars
    /\ UNCHANGED apiVars

TextNext == ExtractTopicsCall \/ SummarizeTextCall

TextSpec == TextInit /\ [][TextNext]_vars

-----------------------------------------------------------------------------
(* src/api.py: the cache, the background task process_news, get_results    *)

\* background tasks queued in one run of the model
MaxTasks == 2

\* company names of the requests: two names that differ only in ' ' / '_'
Companies == {"Acme Corp", "Acme_Corp"}

\* the requests of one run: up to MaxTasks requests for one article each,
\* which run concurrently and find sound pages; or a single request for two
\* articles, which finds pages of any kind, with clients polling
\* GET /api/results meanwhile
Workloads ==
    {[requests |-> MaxTasks, num_articles |-> 1, polls |-> FALSE, pages |-> "sound"],
     [requests |-> 1, num_articles |-> 2, polls |-> TRUE, pages |-> "any"]}

\* the dicts search_news_articles builds for its hits
LinkAlpha == [url |-> "u1", snippet |-> "Alpha in short", source |-> "Wire", time |-> "Monday"]

LinkBeta == [url |-> "u2", snippet |-> "", source |-> "", time |-> ""]

\* what extract_article_content returns for a page: title, content and date
\* as found, each "" when the page has none
PageAlpha == [title |-> "Alpha", content |-> "Profits and growth", date |-> "", url |-> "u1"]

PageBeta == [title |-> "Beta", content |-> "Growth and loss", date |-> "Tuesday", url |-> "u2"]

\* a page with paragraphs but neither <h1> nor <title>
PageUntitled == [title |-> "", content |-> "Profits and growth", date |-> "", url |-> "u1"]

\* extract_article_content's except branch: the request failed
PageFailed(url) ==
    [title |-> "", content |-> "", date |-> "", url |-> url, error |-> "request failed"]

\* what one call of fetch_news meets: the hits of the search, the page
\* behind each, and the hits for which summarize_text or extract_topics
\* raises
NoWeb == [links |-> <<>>, pages |-> EmptyDict, enrich_raises |-> {}]

Webs(kind, num) ==
    IF kind = "sound"
    THEN {NoWeb,
          [links |-> <<LinkAlpha>>, pages |-> ("u1" :> PageAlpha), enrich_raises |-> {}]}
    ELSE {NoWeb}
         \cup {[links |-> <<LinkAlpha>>, pages |-> ("u1" :> first), enrich_raises |-> raises] :
                 first \in {PageAlpha, PageUntitled, PageFailed("u1")},
                 raises \in SUBSET {"u1"}}
         \cup {[links |-> <<LinkAlpha, LinkBeta>>,
                 pages |-> ("u1" :> first) @@ ("u2" :> second),
                 enrich_raises |-> raises] :
                 first \in {PageAlpha, PageUntitled, PageFailed("u1")},
                 second \in {PageBeta, PageFailed("u2")},
                 raises \in SUBSET {"u1", "u2"}}

\* the dict fetch_news appends for a hit (lines 54-62)
ArticleOf(link, page) ==
    [title   |-> Get(page, "title", Get(link, "snippet", "Untitled")),
     url     |-> link.url,
     source  |-> Get(link, "source", "Unknown"),
     date    |-> Get(page, "date", Get(link, "time", "Unknown")),
     content |-> page.content,
     summary |-> SummarizeText(page.content, SummaryLength),
     topics  |-> ExtractTopics(page.content, NumTopics)]

\* the for loop of fetch_news from hit k on: a hit without content is
\* skipped, a hit whose processing raises is skipped, the loop breaks once
\* num_articles records are collected
RECURSIVE FetchFrom(_, _, _, _)
FetchFrom(web, num, k, found) ==
    IF k > Len(web.links) THEN found
    ELSE LET link == web.links[k]
             page == web.pages[link.url]
         IN  IF Get(page, "content", "") = "" THEN FetchFrom(web, num, k + 1, found)
             ELSE IF link.url \in web.enrich_raises THEN FetchFrom(web, num, k + 1, found)
             ELSE LET grown == Append(found, ArticleOf(link, page))
                  IN  IF Len(grown) >= num THEN grown
                      ELSE FetchFrom(web, num, k + 1, grown)

\* news_extractor.fetch_news(company_name, num_articles)
FetchNews(web, num) ==
    IF web.links = <<>> THEN <<>> ELSE FetchFrom(web, num, 1, <<>>)

\* the records of the two sound pages
RawPositive == ArticleOf(LinkAlpha, PageAlpha)

RawNegative == ArticleOf(LinkBeta, PageBeta)

\* sentiment_analyzer.analyze_sentiment(content): the scorer's answer
AnalyzeSentiment(content) ==
    IF content = "Profits and growth"
    THEN [sentiment |-> "Positive", confidence |-> 80]
    ELSE [sentiment |-> "Negative", confidence |-> 40]

\* sentiment_analyzer.analyze_articles(articles): each record gets its
\* 'sentiment', except those whose scoring raised, which are kept as they are
AnalyzeArticles(arts, failed) ==
    [i \in DOMAIN arts |->
        IF i \in failed THEN arts[i]
        ELSE ("sentiment" :> AnalyzeSentiment(arts[i].content)) @@ arts[i]]

\* s.replace(' ', '_')
RECURSIVE ReplaceSpaces(_)
ReplaceSpaces(s) ==
    IF Len(s) = 0 THEN ""
    ELSE (IF SubSeq(s, 1, 1) = " " THEN "_" ELSE SubSeq(s, 1, 1))
         \o ReplaceSpaces(SubSeq(s, 2, Len(s)))

\* output_path of the audio file
AudioPath(company) == "audio_files/" \o ReplaceSpaces(company) \o "_report.mp3"

\* audio_url of the stored entry
AudioUrl(company) == "/audio/" \o ReplaceSpaces(company) \o "_report.mp3"

\* ', '.join(topics)
RECURSIVE JoinComma(_)
JoinComma(strs) ==
    IF strs = <<>> THEN ""
    ELSE IF Len(strs) = 1 THEN strs[1]
    ELSE strs[1] \o ", " \o JoinComma(Tail(strs))

\* tts_report
TtsReport(company, comparison) ==
    LET dist   == comparison.sentiment_distribution
        total  == Get(dist, "Positive", 0) + Get(dist, "Negative", 0) + Get(dist, "Neutral", 0)
        mc     == Get(comparison.topic_analysis, "most_common_topics", <<>>)
        topics == [k \in 1..Min(3, Len(mc)) |-> mc[k].topic]
    IN  "News sentiment analysis for " \o company \o ". "
        \o comparison.final_sentiment \o " "
        \o "Out of " \o ToString(total) \o " articles, "
        \o ToString(Get(dist, "Positive", 0)) \o " were positive, "
        \o ToString(Get(dist, "Negative", 0)) \o " were negative, and "
        \o ToString(Get(dist, "Neutral", 0)) \o " were neutral. "
        \o (IF topics # <<>>
            THEN "The most discussed topics were " \o JoinComma(topics) \o ". "
            ELSE "")

\* mutant: the stored label is read without the 'Neutral' default
FormattedArticlesUnlabelled(scored) ==
    [i \in DOMAIN scored |->
        [title     |-> Get(scored[i], "title", "Untitled"),
         summary   |-> Get(scored[i], "summary", ""),
         sentiment |-> RawLabel(scored[i]),
         topics    |-> Get(scored[i], "topics", <<>>),
         url       |-> Get(scored[i], "url", ""),
         source    |-> Get(scored[i], "source", "Unknown"),
         date      |-> Get(scored[i], "date", "Unknown")]]

\* formatted_articles
FormattedArticles(scored) ==
    [i \in DOMAIN scored |->
        [title     |-> Get(scored[i], "title", "Untitled"),
         summary   |-> Get(scored[i], "summary", ""),
         sentiment |-> LabelOrNeutral(scored[i]),
         topics    |-> Get(scored[i], "topics", <<>>),
         url       |-> Get(scored[i], "url", ""),
         source    |-> Get(scored[i], "source", "Unknown"),
         date      |-> Get(scored[i], "date", "Unknown")]]

\* mutant: the new fields are written into the entry already in the cache,
\* which keeps its 'articles'
StoredEntryOverPrior(task) ==
    LET fresh == [company              |-> task.company,
                  articles             |-> FormattedArticles(task.scored),
                  comparative_analysis |-> task.comparison,
                  final_sentiment      |-> task.comparison.final_sentiment,
                  audio_url            |-> AudioUrl(task.company)]
    IN  IF task.company \in DOMAIN cache /\ "articles" \in DOMAIN cache[task.company]
        THEN [fresh EXCEPT !.articles = cache[task.company].articles]
        ELSE fresh

\* mutant: a run that found no article is stored as an error marker
StoredEntryOrMarker(task) ==
    IF task.scored = <<>>
    THEN [error |-> "No articles found"]
    ELSE [company              |-> task.company,
          articles             |-> FormattedArticles(task.scored),
          comparative_analysis |-> task.comparison,
          final_sentiment      |-> task.comparison.final_sentiment,
          audio_url            |-> AudioUrl(task.company)]

\* the dict process_news stores when no stage raised, from one task's locals
StoredEntry(task) ==
    [company              |-> task.company,
     articles             |-> FormattedArticles(task.scored),
     comparative_analysis |-> task.comparison,
     final_sentiment      |-> task.comparison.final_sentiment,
     audio_url            |-> AudioUrl(task.company)]

\* GET /audio/{file_name}: the file a stored audio_url makes get_audio open,
\* file_path = f"audio_files/{file_name}"
AudioFileOf(url) == "audio_files/" \o SubSeq(url, Len("/audio/") + 1, Len(url))

\* the dict process_news stores from its except clause
ErrorMarker(message) == [error |-> message]

IsErrorMarker(entry) == "error" \in DOMAIN entry

\* mutant: cache.setdefault(company_name, entry), the first write stays
CachePutIfAbsent(company, entry) == cache @@ (company :> entry)

\* cache[company_name] = entry
CachePut(company, entry) == (company :> entry) @@ cache

\* a task as add_task queues it: nothing fetched, scored or rendered yet
NewTask(company, num) ==
    [company |-> company, num_articles |-> num, pc |-> "fetch",
     web |-> NoWeb, articles |-> <<>>, scored |-> <<>>, comparison |-> EmptyDict,
     audio_file |-> "", error |-> ""]

Init ==
    /\ ApiIdle
    /\ workload \in Workloads
    /\ articles = <<>>
    /\ result = EmptyDict
    /\ aggPc = "input"
    /\ TextIdle

\* POST /api/analyze: queue process_news(company_name, num_articles)
AnalyzeCompany(company, num) ==
    /\ Len(tasks) < workload.requests
    /\ num = workload.num_articles
    /\ tasks' = Append(tasks, NewTask(company, num))
    /\ UNCHANGED <<cache, audioFiles, workload, lastStore, response>>
    /\ UNCHANGED aggVars
    /\ UNCHANGED textVars

\* articles = news_extractor.fetch_news(company_name, num_articles)
Fetch(t) ==
    /\ tasks[t].pc = "fetch"
    /\ \E web \in Webs(workload.pages, tasks[t].num_articles) :
          tasks' = [tasks EXCEPT ![t].web = web,
                                 ![t].articles = FetchNews(web, tasks[t].num_articles),
                                 ![t].pc = "score"]
    /\ UNCHANGED <<cache, audioFiles, workload, lastStore, response>>
    /\ UNCHANGED aggVars
    /\ UNCHANGED textVars

\* articles_with_sentiment = sentiment_analyzer.analyze_articles(articles)
Score(t) ==
    /\ tasks[t].pc = "score"
    /\ \E failed \in SUBSET DOMAIN tasks[t].articles :
          tasks' = [tasks EXCEPT ![t].scored = AnalyzeArticles(tasks[t].articles, failed),
                                 ![t].pc = "aggregate"]
    /\ UNCHANGED <<cache, audioFiles, workload, lastStore, response>>
    /\ UNCHANGED aggVars
    /\ UNCHANGED textVars

\* comparison = comparative_analyzer.analyze(articles_with_sentiment)
Aggregate(t) ==
    /\ tasks[t].pc = "aggregate"
    /\ tasks' = [tasks EXCEPT ![t].comparison = Analyze(tasks[t].scored),
                              ![t].pc = "render"]
    /\ UNCHANGED <<cache, audioFiles, workload, lastStore, response>>
    /\ UNCHANGED aggVars
    /\ UNCHANGED textVars

\* str(e) of an exception that is raised inside analyze's try block for a
\* reason outside the records (MemoryError, RecursionError, ...)
FaultMessage == "maximum recursion depth exceeded"

\* comparison = comparative_analyzer.analyze(articles_with_sentiment), with
\* an exception of that kind raised inside the try block: "except Exception
\* as e" (lines 139-147) returns the error-state result.  The empty list is
\* returned before the try block is entered.
AggregateFaults(t) ==
    /\ tasks[t].pc = "aggregate"
    /\ tasks[t].scored # <<>>
    /\ tasks' = [tasks EXCEPT ![t].comparison = ErrorResult(FaultMessage),
                              ![t].pc = "render"]
    /\ UNCHANGED <<cache, audioFiles, workload, lastStore, response>>
    /\ UNCHANGED aggVars
    /\ UNCHANGED textVars

\* audio_file = tts_converter.text_to_speech(tts_report, output_path=...):
\* the file is written and its path returned, or "" when every method failed
Render(t) ==
    /\ tasks[t].pc = "render"
    /\ LET path == AudioPath(tasks[t].company)
           rendering == [speech_of |-> TtsReport(tasks[t].company, tasks[t].comparison)]
       IN  \/ /\ audioFiles' = (path :> rendering) @@ audioFiles
              /\ tasks' = [tasks EXCEPT ![t].audio_file = path, ![t].pc = "store"]
           \/ /\ audioFiles' = audioFiles
              /\ tasks' = [tasks EXCEPT ![t].audio_file = "", ![t].pc = "store"]
    /\ UNCHANGED <<cache, workload, lastStore, response>>
    /\ UNCHANGED aggVars
    /\ UNCHANGED textVars

\* cache[company_name] = {...}  (lines 113-120)
Store(t) ==
    /\ tasks[t].pc = "store"
    /\ cache' = CachePut(tasks[t].company, StoredEntry(tasks[t]))
    /\ lastStore' = (tasks[t].company :> t) @@ lastStore
    /\ tasks' = [tasks EXCEPT ![t].pc = "done"]
    /\ UNCHANGED <<audioFiles, workload, response>>
    /\ UNCHANGED aggVars
    /\ UNCHANGED textVars

\* mutant: the except clause only logs; the task ends and nothing is stored
StageRaisesUnstored(t) ==
    /\ tasks[t].pc \in {"fetch", "score", "render"}
    /\ tasks' = [tasks EXCEPT ![t].error = tasks[t].pc \o " failed", ![t].pc = "done"]
    /\ UNCHANGED <<cache, lastStore, audioFiles, workload, response>>
    /\ UNCHANGED aggVars
    /\ UNCHANGED textVars

\* a call of the try body raises; "except Exception as e" stores the marker
\* (lines 124-127).  analyze has its own handler and does not raise.
StageRaises(t) ==
    /\ tasks[t].pc \in {"fetch", "score", "render"}
    /\ LET message == tasks[t].pc \o " failed"
       IN  /\ cache' = CachePut(tasks[t].company, ErrorMarker(message))
           /\ tasks' = [tasks EXCEPT ![t].error = message, ![t].pc = "done"]
    /\ lastStore' = (tasks[t].company :> t) @@ lastStore
    /\ UNCHANGED <<audioFiles, workload, response>>
    /\ UNCHANGED aggVars
    /\ UNCHANGED textVars

\* mutant: the entry is looked up under the sanitised name, as the audio
\* file is
ResultsAnswerSanitised(company) ==
    LET key == ReplaceSpaces(company)
    IN  IF key \notin DOMAIN cache
        THEN [status |-> 404, company |-> company]
        ELSE IF IsErrorMarker(cache[key])
        THEN [status |-> 500, company |-> company, detail |-> cache[key].error]
        ELSE [status |-> 200, company |-> company, body |-> cache[key]]

\* mutant: an entry whose comparative_analysis carries an 'error' is answered
\* like an error marker
ResultsAnswerFailedAnalysis(company) ==
    IF company \notin DOMAIN cache
    THEN [status |-> 404, company |-> company]
    ELSE IF IsErrorMarker(cache[company])
    THEN [status |-> 500, company |-> company, detail |-> cache[company].error]
    ELSE IF "error" \in DOMAIN cache[company].comparative_analysis
    THEN [status |-> 500, company |-> company,
          detail |-> cache[company].comparative_analysis.error]
    ELSE [status |-> 200, company |-> company, body |-> cache[company]]

\* what get_results answers on the cache as it is: HTTPException 404 or 500,
\* or the stored dict
ResultsAnswer(company) ==
    IF company \notin DOMAIN cache
    THEN [status |-> 404, company |-> company]
    ELSE IF IsErrorMarker(cache[company])
    THEN [status |-> 500, company |-> company, detail |-> cache[company].error]
    ELSE [status |-> 200, company |-> company, body |-> cache[company]]

\* GET /api/results/{company_name}: the handler reads the cache and answers
GetResults(company) ==
    /\ workload.polls
    /\ response' = ResultsAnswer(company)
    /\ UNCHANGED <<cache, audioFiles, tasks, workload, lastStore>>
    /\ UNCHANGED aggVars
    /\ UNCHANGED textVars

Next ==
    \/ \E company \in Companies, num \in 0..2 : AnalyzeCompany(company, num)
    \/ \E company \in Companies : GetResults(company)
    \/ \E t \in DOMAIN tasks : Fetch(t)
    \/ \E t \in DOMAIN tasks : Score(t)
    \/ \E t \in DOMAIN tasks : Aggregate(t)
    \/ \E t \in DOMAIN tasks : AggregateFaults(t)
    \/ \E t \in DOMAIN tasks : Render(t)
    \/ \E t \in DOMAIN tasks : Store(t)
    \/ \E t \in DOMAIN tasks : StageRaises(t)

Spec == Init /\ [][Next]_vars

\* one step of the background task t, whichever stage it is at
TaskStep(t) ==
    /\ t \in DOMAIN tasks
    /\ \/ Fetch(t) \/ Score(t) \/ AggregateFaults(t) \/ Aggregate(t) \/ Render(t)
       \/ Store(t) \/ StageRaises(t)

\* the worker threads keep running queued tasks, and each call a task makes
\* returns or raises: while some task can take a step, some task does
FairSpec == Spec /\ WF_vars(\E t \in DOMAIN tasks : TaskStep(t))

-----------------------------------------------------------------------------
(* Properties of the cache under concurrent background tasks *)

EntryKeys == {"company", "articles", "comparative_analysis", "final_sentiment", "audio_url"}

\* the tasks for a company that have finished
Finished(company) ==
    {t \in DOMAIN tasks : tasks[t].company = company /\ tasks[t].pc = "done"}

\* what a finished task put into the cache: its result, or its error marker
Produced(t) ==
    IF tasks[t].error # "" THEN [error |-> tasks[t].error]
    ELSE [company              |-> tasks[t].company,
          articles             |-> FormattedArticles(tasks[t].scored),
          comparative_analysis |-> tasks[t].comparison,
          final_sentiment      |-> tasks[t].comparison.final_sentiment,
          audio_url            |-> "/audio/" \o ReplaceSpaces(tasks[t].company) \o "_report.mp3"]

\* C9: what get_results can see for a company is never a partly written
\* entry: no entry (404), or an error marker and nothing else (500), or an
\* entry with all five fields, every one of them from one and the same
\* finished task for that company (200).
C9_NoPartialEntry ==
    \A company \in Companies :
        LET answer == ResultsAnswer(company)
        IN  \/ answer.status = 404 /\ company \notin DOMAIN cache
            \/ /\ answer.status = 500
               /\ DOMAIN cache[company] = {"error"}
               /\ \E t \in Finished(company) : cache[company] = Produced(t)
            \/ /\ answer.status = 200
               /\ DOMAIN answer.body = EntryKeys
               /\ \E t \in Finished(company) : answer.body = Produced(t)

\* two tasks for one company have both written, with different articles, and
\* the entry is a full result
C9_Witness ==
    \E company \in Companies :
        /\ company \in DOMAIN cache
        /\ ~IsErrorMarker(cache[company])
        /\ \E t, u \in Finished(company) :
              /\ tasks[t].error = "" /\ tasks[u].error = ""
              /\ tasks[t].scored # tasks[u].scored
              /\ cache[company] = Produced(t)

\* C10: when every task queued for a company has finished, the cache entry
\* of the company is exactly what the task that wrote last produced, result
\* or error marker, whatever the entry was before.
C10_LastWriteWins ==
    \A company \in Companies :
        ((\E t \in DOMAIN tasks : tasks[t].company = company)
          /\ (\A t \in DOMAIN tasks : tasks[t].company = company => tasks[t].pc = "done"))
        => /\ company \in DOMAIN cache
           /\ company \in DOMAIN lastStore
           /\ lastStore[company] \in Finished(company)
           /\ cache[company] = Produced(lastStore[company])

\* two tasks for one company have finished; the first to write stored a
\* result, the last an error marker, and the marker is what the cache holds
C10_Witness ==
    \E company \in Companies :
        \E t, u \in Finished(company) :
            /\ t # u
            /\ tasks[t].error = "" /\ tasks[u].error # ""
            /\ lastStore[company] = u
            /\ cache[company] = [error |-> tasks[u].error]

-----------------------------------------------------------------------------
(* Independence of the units of work of different companies *)

\* the audio file the cache entry of a company points to, when it has one
ReferencedAudio(company) ==
    IF company \in DOMAIN cache /\ "audio_url" \in DOMAIN cache[company]
    THEN {AudioFileOf(cache[company].audio_url)}
    ELSE {}

\* t takes a step of its pipeline
Steps(t) == t \in DOMAIN tasks /\ tasks'[t] # tasks[t]

\* C11: a step of the unit of work of company X leaves alone, for every
\* other company name Y, the cache entry of Y (present or absent) and the
\* audio file that entry points to.
C11_Independent ==
    [][\A t \in DOMAIN tasks :
          Steps(t) =>
            \A other \in Companies \ {tasks[t].company} :
                /\ (other \in DOMAIN cache') = (other \in DOMAIN cache)
                /\ other \in DOMAIN cache => cache'[other] = cache[other]
                /\ \A path \in ReferencedAudio(other) :
                      /\ (path \in DOMAIN audioFiles') = (path \in DOMAIN audioFiles)
                      /\ path \in DOMAIN audioFiles =>
                            audioFiles'[path] = audioFiles[path]]_vars

-----------------------------------------------------------------------------
(* Termination of the units of work *)

\* C12: every queued task finishes, and its company then has a cache entry;
\* a task writes to the cache in its last step and in no other: the step
\* that ends it stores, under its own company name and nowhere else, the
\* full result when no stage raised and the error marker otherwise; every
\* other step of the task leaves the cache as it is, and a finished task
\* takes no further step.  (A queued task stays in the task list, so "once
\* queued it eventually is finished and stored" is written as: again and
\* again, the task is not queued yet or it is finished and stored.)
C12_EventuallyStored ==
    /\ \A t \in 1..MaxTasks :
          []<>(t \in DOMAIN tasks =>
                  tasks[t].pc = "done" /\ tasks[t].company \in DOMAIN cache)
    /\ [][\A t \in DOMAIN tasks :
            /\ tasks[t].pc = "done" => tasks'[t] = tasks[t]
            /\ Steps(t) =>
                 IF tasks'[t].pc = "done"
                 THEN LET entry == cache'[tasks[t].company]
                      IN  /\ tasks[t].company \in DOMAIN cache'
                          /\ \A other \in DOMAIN cache' \ {tasks[t].company} :
                                other \in DOMAIN cache /\ cache'[other] = cache[other]
                          /\ DOMAIN cache \subseteq DOMAIN cache'
                          /\ IF tasks'[t].error = ""
                             THEN /\ tasks[t].pc = "store"
                                  /\ DOMAIN entry = EntryKeys
                                  /\ entry = StoredEntry(tasks[t])
                             ELSE entry = [error |-> tasks'[t].error]
                 ELSE cache' = cache]_vars

\* tasks of both companies have finished, one after a stage raised and one
\* with every stage returning, and the cache holds the marker and the result
C12_Witness ==
    \E t, u \in DOMAIN tasks :
        /\ tasks[t].company # tasks[u].company
        /\ tasks[t].pc = "done" /\ tasks[u].pc = "done"
        /\ tasks[t].error # "" /\ tasks[u].error = ""
        /\ cache[tasks[t].company] = [error |-> tasks[t].error]
        /\ DOMAIN cache[tasks[u].company] = EntryKeys

-----------------------------------------------------------------------------
(* Polling for results *)

\* C13: an answer of get_results is decided by the cache as it is when the
\* call is made: 404 exactly when the cache has no entry under that very
\* name, 500 exactly when the entry is an error marker, and otherwise the
\* stored five-field entry itself; the call leaves the cache as it was.
C13_ResultsByCache ==
    [][response' # response =>
          LET company == response'.company
              status  == response'.status
          IN  /\ cache' = cache
              /\ company \in Companies
              /\ status \in {404, 500, 200}
              /\ status = 404 <=> company \notin DOMAIN cache
              /\ status = 500 <=>
                    (company \in DOMAIN cache /\ "error" \in DOMAIN cache[company])
              /\ status = 200 =>
                    /\ response'.body = cache[company]
                    /\ DOMAIN response'.body = EntryKeys]_vars

\* a poll was answered with the stored result of a company while the other
\* name, which differs from it only by ' ' and '_', has no entry
C13_Witness ==
    /\ response # EmptyDict
    /\ response.status = 200
    /\ response.body = cache[response.company]
    /\ \E other \in Companies \ {response.company} :
          /\ other \notin DOMAIN cache
          /\ ReplaceSpaces(other) = ReplaceSpaces(response.company)

-----------------------------------------------------------------------------
(* Failures of the stages *)

\* the task whose write is the cache entry of its company
Wrote(t) ==
    /\ tasks[t].pc = "done"
    /\ tasks[t].company \in DOMAIN lastStore
    /\ lastStore[tasks[t].company] = t

\* C14: when text_to_speech returned "" (every synthesis method failed) and
\* no stage raised, the task has stored the full result of its company and
\* the audio_url of that result is empty.
C14_EmptyAudioUrl ==
    \A t \in DOMAIN tasks :
        (Wrote(t) /\ tasks[t].error = "" /\ tasks[t].audio_file = "")
        => /\ DOMAIN cache[tasks[t].company] = EntryKeys
           /\ cache[tasks[t].company].articles = FormattedArticles(tasks[t].scored)
           /\ cache[tasks[t].company].audio_url = ""

\* the hits of the task's search whose page had content: the articles found
Found(t) ==
    LET web == tasks[t].web
    IN  {k \in DOMAIN web.links : Get(web.pages[web.links[k].url], "content", "") # ""}

\* the records of the task whose scoring raised: they carry no 'sentiment'
Unscored(t) == {i \in DOMAIN tasks[t].scored : "sentiment" \notin DOMAIN tasks[t].scored[i]}

\* C15: in the result a task stored, every article found is listed, also
\* one whose summary/topic extraction raised and one whose scoring raised;
\* an article whose scoring raised is listed as Neutral and counted as
\* Neutral, and every other article keeps the label the scorer gave it.
C15_DegradedKept ==
    \A t \in DOMAIN tasks :
        (Wrote(t) /\ tasks[t].error = "")
        => LET entry  == cache[tasks[t].company]
               web    == tasks[t].web
               scored == tasks[t].scored
               dist   == entry.comparative_analysis.sentiment_distribution
           IN  /\ \A k \in Found(t) :
                     \E i \in DOMAIN entry.articles :
                         entry.articles[i].url = web.links[k].url
               /\ Len(entry.articles) = Len(scored)
               /\ \A i \in DOMAIN scored :
                     /\ entry.articles[i].url = scored[i].url
                     /\ entry.articles[i].sentiment =
                           (IF i \in Unscored(t) THEN "Neutral"
                            ELSE scored[i].sentiment.sentiment)
               /\ Get(dist, "Neutral", 0) = Cardinality(Unscored(t))

\* the stages a task has behind it when it is at pc
Past(t, stage) ==
    LET order == <<"fetch", "score", "aggregate", "render", "store", "done">>
        At(p) == CHOOSE k \in DOMAIN order : order[k] = p
    IN  At(tasks[t].pc) > At(stage)

\* C16: when fetch_news returns [] (the search failed or found nothing, or
\* no page gave content), the empty list goes through scoring and analyze,
\* analyze returns its "No data available" result and not an error result,
\* and the task, unless a stage raised, stores a regular entry with no
\* articles, which get_results answers as a success.
C16_EmptyPropagates ==
    \A t \in DOMAIN tasks :
        (Past(t, "fetch") /\ tasks[t].articles = <<>> /\ tasks[t].error = "")
        => /\ Past(t, "score") => tasks[t].scored = <<>>
           /\ Past(t, "aggregate") =>
                 /\ "error" \notin DOMAIN tasks[t].comparison
                 /\ tasks[t].comparison.sentiment_distribution = EmptyDict
                 /\ tasks[t].comparison.final_sentiment = "No data available"
           /\ Wrote(t) =>
                 LET entry  == cache[tasks[t].company]
                     answer == ResultsAnswer(tasks[t].company)
                 IN  /\ DOMAIN entry = EntryKeys
                     /\ entry.articles = <<>>
                     /\ entry.comparative_analysis.sentiment_distribution = EmptyDict
                     /\ entry.final_sentiment = "No data available"
                     /\ answer.status = 200
                     /\ answer.body = entry

\* the search of a task failed, the task has stored its result, and a poll
\* for its company was answered with that result
C16_Witness ==
    \E t \in DOMAIN tasks :
        /\ Wrote(t) /\ tasks[t].error = ""
        /\ tasks[t].web.links = <<>>
        /\ response # EmptyDict
        /\ response.company = tasks[t].company
        /\ response.status = 200
        /\ response.body.articles = <<>>
        /\ response.body.final_sentiment = "No data available"

\* the hit of the task's search that a fetched record came from
HitOf(t, record) ==
    CHOOSE k \in DOMAIN tasks[t].web.links : tasks[t].web.links[k].url = record.url

\* C17: every record fetch_news returned, and so every record handed to
\* analyze, has a non-empty title: the page's title when the page has one,
\* otherwise the snippet of the search hit, otherwise "Untitled".
C17_TitleNonEmpty ==
    \A t \in DOMAIN tasks :
        /\ \A i \in DOMAIN tasks[t].articles :
              LET record == tasks[t].articles[i]
                  link   == tasks[t].web.links[HitOf(t, record)]
                  page   == tasks[t].web.pages[record.url]
              IN  /\ record.title # ""
                  /\ record.title =
                        (IF page.title # "" THEN page.title
                         ELSE IF link.snippet # "" THEN link.snippet
                         ELSE "Untitled")
        /\ \A i \in DOMAIN tasks[t].scored :
              "title" \in DOMAIN tasks[t].scored[i] /\ tasks[t].scored[i].title # ""

-----------------------------------------------------------------------------
(* The number in final_sentiment *)

\* the confidence an article contributes, in hundredths: its
\* sentiment.confidence, 0 when it has none
CountedConfidence(a) ==
    IF "sentiment" \in DOMAIN a /\ "confidence" \in DOMAIN a.sentiment
    THEN a.sentiment.confidence
    ELSE 0

RECURSIVE TotalConfidence(_)
TotalConfidence(arts) ==
    IF arts = <<>> THEN 0
    ELSE CountedConfidence(Head(arts)) + TotalConfidence(Tail(arts))

\* the text between "average confidence of " and the final "."
EmbeddedNumber(final) ==
    LET word == CHOOSE w \in EmbeddedVerdicts(final) : TRUE
    IN  SubSeq(final, Len(VerdictPrefix(word)) + 1, Len(final) - 1)

IsDigit(ch) == \E d \in 0..9 : ToString(d) = ch

DigitValue(ch) == CHOOSE d \in 0..9 : ToString(d) = ch

\* the three-article example: Positive 0.9, Positive 0.8, Negative 0.4
ExampleList ==
    LET Scored(label, confidence) ==
            [title |-> "Alpha", topics |-> <<"EV">>, url |-> "u1",
             sentiment |-> [sentiment |-> label, confidence |-> confidence]]
    IN  <<Scored("Positive", 90), Scored("Positive", 80), Scored("Negative", 40)>>

\* C19: the number in final_sentiment is written as one digit, a point and
\* two digits, and it is the hundredth nearest to the arithmetic mean of the
\* confidences of all input articles, an article without confidence counting
\* 0; the example [0.9, 0.8, 0.4] gives "... mostly positive with an average
\* confidence of 0.70.".
C19_MeanConfidence ==
    Completed =>
        LET final  == result.final_sentiment
            number == EmbeddedNumber(final)
            shown  == 100 * DigitValue(SubSeq(number, 1, 1))
                      + 10 * DigitValue(SubSeq(number, 3, 3))
                      + DigitValue(SubSeq(number, 4, 4))
            total  == TotalConfidence(articles)
            n      == Len(articles)
        IN  /\ SubSeq(final, Len(final), Len(final)) = "."
            /\ Len(number) = 4
            /\ SubSeq(number, 2, 2) = "."
            /\ \A k \in {1, 3, 4} : IsDigit(SubSeq(number, k, k))
            /\ 2 * (shown * n - total) <= n
            /\ 2 * (total - shown * n) <= n
            /\ articles = ExampleList =>
                  final = "The news coverage is mostly positive with an average confidence of 0.70."

\* analyze has returned on the example, with 0.70 as the number
C19_Witness ==
    /\ Completed
    /\ articles = ExampleList
    /\ EmbeddedNumber(result.final_sentiment) = "0.70"

-----------------------------------------------------------------------------
(* The topic-contrast comparisons *)

\* the label a record carries: its sentiment.sentiment, and none (PyNone)
\* when it has no sentiment or its sentiment has no label
CarriedLabel(a) ==
    IF "sentiment" \in DOMAIN a /\ "sentiment" \in DOMAIN a.sentiment
    THEN a.sentiment.sentiment
    ELSE PyNone

\* how often the record's own topic list holds the topic
TimesIn(a, topic) == Cardinality({k \in DOMAIN TopicsOf(a) : TopicsOf(a)[k] = topic})

\* The list of articles associated with a topic has one entry for each
\* occurrence of the topic in an article's topic list, in input order.  Its
\* first entry is the first article that has the topic; its second entry is
\* that article again when its list holds the topic twice, and the next
\* article that has the topic otherwise.
FirstEntry(arts, topic) == SetMin(ArticlesWith(arts, topic))

HasSecondEntry(arts, topic) ==
    \/ TimesIn(arts[FirstEntry(arts, topic)], topic) >= 2
    \/ Cardinality(ArticlesWith(arts, topic)) >= 2

SecondEntry(arts, topic) ==
    IF TimesIn(arts[FirstEntry(arts, topic)], topic) >= 2
    THEN FirstEntry(arts, topic)
    ELSE SetMin(ArticlesWith(arts, topic) \ {FirstEntry(arts, topic)})

\* the topics that get a comparison
Disputed(arts) ==
    {topic \in EveryTopic(arts) :
        /\ HasSecondEntry(arts, topic)
        /\ CarriedLabel(arts[FirstEntry(arts, topic)])
             # CarriedLabel(arts[SecondEntry(arts, topic)])}

\* does topic s occur before topic t in the concatenated topic lists
OccursBefore(arts, s, t) ==
    LET FirstIn(a, topic) == SetMin({k \in DOMAIN TopicsOf(a) : TopicsOf(a)[k] = topic})
        i == FirstEntry(arts, s)
        j == FirstEntry(arts, t)
    IN  i < j \/ (i = j /\ FirstIn(arts[i], s) < FirstIn(arts[j], t))

\* the comparisons expected for the input, in order of first occurrence
ExpectedContrast(arts) ==
    LET disputed == Disputed(arts)
        TopicAt(k) == CHOOSE t \in disputed :
                         Cardinality({u \in disputed : OccursBefore(arts, u, t)}) = k - 1
    IN  [k \in 1..Cardinality(disputed) |->
            LET topic == TopicAt(k)
            IN  [comparison |-> "Articles about '" \o topic
                                \o "' show differing perspectives: "
                                \o arts[FirstEntry(arts, topic)].title \o " vs "
                                \o arts[SecondEntry(arts, topic)].title,
                 impact |-> "This suggests the '" \o topic
                            \o "' aspect may be a point of contention or uncertainty."]]

IsTopicItem(item) == Prefix(item.comparison, Len("Articles about '")) = "Articles about '"

-----------------------------------------------------------------------------
(* The polarity-contrast comparison *)

\* the positions of the records that carry the label, in the input
Carrying(arts, label) == {i \in DOMAIN arts : CarriedLabel(arts[i]) = label}

\* a comparison of the polarity kind is told by its impact sentence
IsPolarityItem(item) ==
    item.impact = "These contrasting viewpoints suggest mixed market reactions or controversial developments."

\* C21: when the aggregation completes, coverage_differences holds a
\* polarity comparison if and only if the input has a Positive and a Negative
\* record; it then holds exactly one, which is its first item (so the cut to
\* 5 items never removes it) and names the title of the first Positive and
\* the title of the first Negative record of the input.
C21_PolarityContrast ==
    Completed =>
        LET differences == result.coverage_differences
            positive    == Carrying(articles, "Positive")
            negative    == Carrying(articles, "Negative")
            shown       == {k \in DOMAIN differences : IsPolarityItem(differences[k])}
        IN  /\ shown # {} <=> (positive # {} /\ negative # {})
            /\ shown \subseteq {1}
            /\ shown # {} =>
                  differences[1].comparison =
                      articles[SetMin(positive)].title
                      \o " presents a positive view, while "
                      \o articles[SetMin(negative)].title
                      \o " discusses negative aspects."

\* a later Positive record has another title than the first one, a Negative
\* record follows, and the comparison heads the list
C21_Witness ==
    /\ Completed
    /\ WellFormed(articles)
    /\ \E i, j \in Carrying(articles, "Positive") :
          i < j /\ articles[i].title # articles[j].title
    /\ Carrying(articles, "Negative") # {}
    /\ Len(result.coverage_differences) >= 2
    /\ IsPolarityItem(result.coverage_differences[1])

-----------------------------------------------------------------------------
(* The topics of one text *)

\* the positions of the text where a word begins: a character that is no
\* space, at the start of the text or after a space
WordStarts(t) ==
    {i \in 1..Len(t) :
        /\ SubSeq(t, i, i) # " "
        /\ i = 1 \/ SubSeq(t, i - 1, i - 1) = " "}

\* the word that begins at position i: up to the next space or the end
WordAt(t, i) ==
    LET ends == {j \in i..Len(t) : j = Len(t) \/ SubSeq(t, j + 1, j + 1) = " "}
    IN  SubSeq(t, i, SetMin(ends))

\* two occurrences of one word: equal but for the case of their letters
SameWord(t, i, j) == Lower(WordAt(t, i)) = Lower(WordAt(t, j))

\* how often the word at position i occurs in the text
Frequency(t, i) == Cardinality({j \in WordStarts(t) : SameWord(t, i, j)})

\* the first occurrences of the words longer than 3 characters that are no
\* stopwords
TopicSources(t) ==
    {i \in WordStarts(t) :
        /\ Len(WordAt(t, i)) > 3
        /\ Lower(WordAt(t, i)) \notin Stopwords
        /\ \A j \in WordStarts(t) : j < i => ~SameWord(t, i, j)}

\* C22: the list extract_topics returns has no element twice and at most
\* num_topics elements; each element is the capitalized form of a word of
\* the text that is longer than 3 characters and no stopword, and the
\* elements stand in the order of non-increasing frequency of their words,
\* words of equal frequency in the order of their first occurrence.
C22_TopicsDistinct ==
    textPc = "topics" =>
        /\ \A k, l \in DOMAIN output : k # l => output[k] # output[l]
        /\ Len(output) <= limit
        /\ \E source \in [DOMAIN output -> TopicSources(rawText)] :
              /\ \A k \in DOMAIN output :
                    output[k] = Capitalize(Lower(WordAt(rawText, source[k])))
              /\ \A k, l \in DOMAIN output :
                    k < l =>
                      \/ Frequency(rawText, source[k]) > Frequency(rawText, source[l])
                      \/ /\ Frequency(rawText, source[k]) = Frequency(rawText, source[l])
                         /\ source[k] < source[l]

-----------------------------------------------------------------------------
(* The summary of one text *)

\* the positions where a sentence of the text ends: a mark . ! ? that a
\* space follows, and the last character of the text
SentenceEnds(t) ==
    {i \in 1..(Len(t) - 1) :
        /\ SubSeq(t, i, i) \in {".", "!", "?"}
        /\ SubSeq(t, i + 1, i + 1) = " "}
    \cup {Len(t)}

\* the k-th of them
SentenceEnd(t, k) ==
    CHOOSE e \in SentenceEnds(t) : Cardinality({x \in SentenceEnds(t) : x < e}) = k - 1

\* where the k-th sentence begins: the first sentence with the text, a later
\* one at the first character after the spaces that follow the sentence
\* before it (past the end of the text when only spaces are left)
SentenceStart(t, k) ==
    IF k = 1 THEN 1
    ELSE SetMin({p \in (SentenceEnd(t, k - 1) + 1)..(Len(t) + 1) :
                    p = Len(t) + 1 \/ SubSeq(t, p, p) # " "})

Sentence(t, k) == SubSeq(t, SentenceStart(t, k), SentenceEnd(t, k))

\* the first k sentences, a space after each
RECURSIVE Leading(_, _)
Leading(t, k) ==
    IF k = 0 THEN "" ELSE Leading(t, k - 1) \o Sentence(t, k) \o " "

\* C23: summarize_text returns the text itself when it is not longer than
\* max_length; otherwise it returns at most max_length characters, namely
\* the first k sentences of the text in their order, whole, a space between
\* them and none around them, where the sentences up to the k-th each kept
\* the summary within max_length when they were added and the next sentence,
\* if any, would pass it.
C23_Summary ==
    textPc = "summary" =>
        IF Len(rawText) <= limit
        THEN output = rawText
        ELSE /\ Len(output) <= limit
             /\ \E k \in 0..Cardinality(SentenceEnds(rawText)) :
                   /\ output = Strip(Leading(rawText, k))
                   /\ \A j \in 1..k :
                         Len(Leading(rawText, j - 1)) + Len(Sentence(rawText, j)) <= limit
                   /\ k < Cardinality(SentenceEnds(rawText)) =>
                         Len(Leading(rawText, k)) + Len(Sentence(rawText, k + 1)) > limit

\* two sentences fill max_length exactly and a third sentence is left out
C23_Witness ==
    /\ textPc = "summary"
    /\ Len(rawText) > limit
    /\ Cardinality(SentenceEnds(rawText)) >= 3
    /\ output = Sentence(rawText, 1) \o " " \o Sentence(rawText, 2)
    /\ Len(output) = limit

-----------------------------------------------------------------------------
(* The stored labels and the stored distribution *)

\* the cache entries that are no error marker
ResultEntries == {cache[company] : company \in {c \in DOMAIN cache : ~IsErrorMarker(cache[c])}}

\* how many of the stored articles have the label
StoredWith(entry, label) ==
    Cardinality({i \in DOMAIN entry.articles : entry.articles[i].sentiment = label})

\* do the stored labels agree with the stored distribution: each label
\* counted as often as the distribution says (0 for a label that is no key),
\* no other key, and as many articles as the values add up to
LabelsAgree(entry) ==
    LET dist == entry.comparative_analysis.sentiment_distribution
    IN  /\ DOMAIN dist \subseteq Labels
        /\ \A i \in DOMAIN entry.articles : entry.articles[i].sentiment \in Labels
        /\ \A label \in Labels : StoredWith(entry, label) = Get(dist, label, 0)
        /\ Len(entry.articles)
             = Get(dist, "Positive", 0) + Get(dist, "Negative", 0) + Get(dist, "Neutral", 0)

\* C24 as claimed: in every cache entry that is no error marker the stored
\* labels agree with the stored distribution.
C24_LabelsAgree == \A entry \in ResultEntries : LabelsAgree(entry)

\* C24, amended: in every cache entry that is no error marker and whose
\* comparative_analysis is not the error-state result, the stored labels
\* agree with the stored distribution; in an entry whose
\* comparative_analysis is the error-state result the distribution is empty
\* while the articles are stored with their labels.
C24_LabelsAgreeUnlessFailed ==
    \A entry \in ResultEntries :
        IF IsErrorResult(entry.comparative_analysis)
        THEN /\ entry.comparative_analysis.sentiment_distribution = EmptyDict
             /\ entry.articles # <<>>
             /\ \A i \in DOMAIN entry.articles : entry.articles[i].sentiment \in Labels
        ELSE LabelsAgree(entry)

\* an entry of two articles, one of them left unscored and stored as
\* Neutral, whose distribution counts one Neutral
C24_Witness ==
    \E entry \in ResultEntries, t \in DOMAIN tasks :
        /\ ~IsErrorResult(entry.comparative_analysis)
        /\ tasks[t].pc = "done" /\ tasks[t].company = entry.company
        /\ Len(entry.articles) = 2
        /\ \E i \in DOMAIN tasks[t].scored : "sentiment" \notin DOMAIN tasks[t].scored[i]
        /\ Get(entry.comparative_analysis.sentiment_distribution, "Neutral", 0) = 1

-----------------------------------------------------------------------------
(* The audio file behind a stored entry *)

\* C25: for every cache entry that is no error marker, the file its
\* audio_url leads to exists and holds the speech rendered from the report
\* of the task that wrote the entry.
C25_AudioOfWriter ==
    \A company \in DOMAIN cache :
        ~IsErrorMarker(cache[company]) =>
            LET writer == lastStore[company]
                file   == AudioFileOf(cache[company].audio_url)
            IN  /\ file \in DOMAIN audioFiles
                /\ audioFiles[file].speech_of
                     = TtsReport(tasks[writer].company, tasks[writer].comparison)

-----------------------------------------------------------------------------
(* An aggregation that took its error path *)

\* C26: when analyze returns its error-state result the task goes on to the
\* render stage and nothing is written to the cache; when the task then ends
\* without a stage raising, what it stores is no error marker but the regular
\* five-field entry, with the error-state result as comparative_analysis and
\* "Error in analysis" as final_sentiment; and get_results answers a request
\* for a company with such an entry with the entry itself (200), not with 500.
C26_FailedAnalysisStored ==
    [][/\ \A t \in DOMAIN tasks :
            (Steps(t) /\ tasks[t].pc = "aggregate" /\ IsErrorResult(tasks'[t].comparison))
            => /\ tasks'[t].pc = "render"
               /\ tasks'[t].error = ""
               /\ cache' = cache
       /\ \A t \in DOMAIN tasks :
            (/\ Steps(t) /\ tasks'[t].pc = "done" /\ tasks'[t].error = ""
             /\ IsErrorResult(tasks[t].comparison))
            => LET entry == cache'[tasks[t].company]
               IN  /\ tasks[t].company \in DOMAIN cache'
                   /\ DOMAIN entry = EntryKeys
                   /\ entry.comparative_analysis = tasks[t].comparison
                   /\ entry.comparative_analysis.final_sentiment = "Error in analysis"
                   /\ entry.final_sentiment = "Error in analysis"
       /\ response' # response =>
            LET company == response'.company
            IN  (/\ company \in DOMAIN cache
                 /\ "comparative_analysis" \in DOMAIN cache[company]
                 /\ IsErrorResult(cache[company].comparative_analysis))
                => /\ response'.status = 200
                   /\ response'.body = cache[company]]_vars

\* a poll was answered with a stored entry whose comparative_analysis is the
\* error-state result
C26_Witness ==
    /\ response # EmptyDict
    /\ response.status = 200
    /\ response.body = cache[response.company]
    /\ IsErrorResult(response.body.comparative_analysis)
    /\ response.body.final_sentiment = "Error in analysis"
    /\ response.body.articles # <<>>

-----------------------------------------------------------------------------
(* Records without a sentiment label *)

\* a record without a sentiment label: it has no 'sentiment' key, or its
\* sentiment dict has no 'sentiment' key
Unlabelled(a) ==
    \/ "sentiment" \notin DOMAIN a
    \/ IsDict(a.sentiment) /\ "sentiment" \notin DOMAIN a.sentiment

\* the same record carrying the label Neutral with confidence 0
AsNeutral(a) ==
    [k \in DOMAIN a \cup {"sentiment"} |->
        IF k = "sentiment" THEN [sentiment |-> "Neutral", confidence |-> 0]
                           ELSE a[k]]

\* the input list with each unlabelled record replaced
Relabelled(arts) ==
    [i \in DOMAIN arts |-> IF Unlabelled(arts[i]) THEN AsNeutral(arts[i]) ELSE arts[i]]

\* C27: whatever the input list, the result of analyze is the result it
\* gives for the list in which each record without a sentiment label is
\* replaced by the same record labelled Neutral with confidence 0.
C27_UnlabelledAsNeutral ==
    Returned => result = Analyze(Relabelled(articles))

====
